---- MODULE Spec2Model ----
(***************************************************************************)
(* Model of the innumerable event counter (src/src/lib.rs).                *)
(*                                                                         *)
(* Every thread owns a lazily created counter store (THREAD_COUNTS), a     *)
(* mutex-protected hash map from (name, index) to a count.  Each store is  *)
(* registered once in the global, mutex-protected vector MAPS.  event!     *)
(* increments one entry of the calling thread's store; print_counts walks  *)
(* MAPS, merges every store into a BTreeMap of BTreeMaps and prints it.    *)
(*                                                                         *)
(* Each thread is a process with a program counter; one action is one      *)
(* atomic step of the code (a lock acquisition, the work done under a      *)
(* lock, a release).                                                       *)
(***************************************************************************)
EXTENDS Integers, Sequences, FiniteSets, TLC

\* ------------------------------------------------------------------ bounds
\* total number of event! calls made in one behaviour
MaxEvents == 3
\* total number of print_counts calls made in one behaviour
MaxReports == 2

\* ------------------------------------------------------------ the universe
\* The main thread and the threads it spawned.  The main thread never
\* terminates inside a behaviour: its end is the end of the process.
MainThread == 1
Threads == {1, 2, 3}

\* Event names are strings, modelled as sequences of byte values so that
\* their order is computed: "ab" = <<1, 2>>, "b" = <<2>>.
Names == {<<1, 2>>, <<2>>}
\* Sub-indices, after the `as i64` cast.
Indices == {-1, 0, 1}
Keys == Names \X Indices

\* No thread: the value of a free lock.
NoThread == 0

VARIABLES
    MAPS,           \* the registry: sequence of registered stores
    mapsLock,       \* holder of the MAPS mutex, or NoThread
    stores,         \* stores[s]: the hash map of store s (s = creating thread)
    storeLock,      \* storeLock[s]: holder of the mutex of store s, or NoThread
    tls,            \* tls[t]: state of THREAD_COUNTS of thread t
    pc,             \* pc[t]: position of thread t
    arg,            \* arg[t]: key of the event! call thread t is in
    cursor,         \* cursor[t]: position of print_counts' loop over MAPS
    events,         \* events[t]: the BTreeMap print_counts builds
    out,            \* out[t]: lines printed by thread t's latest print_counts
    prevOut,        \* prevOut[t]: lines printed by the print_counts before
    calls,          \* calls[t][k]: event! calls thread t made with key k
    nEvents,        \* event! calls made so far
    nReports,       \* print_counts calls made so far
    quiet,          \* quiet[t]: no event! call ran during t's current report
    quietRuns,      \* quietRuns[t]: consecutive completed reports of t with
                    \* no event! call from the start of the first of them
    snap,           \* snap[t]: how the stores moved under t's current report
    poison          \* the mutexes poisoned by a panic of their holder

vars == <<MAPS, mapsLock, stores, storeLock, tls, pc, arg, cursor, events,
          out, prevOut, calls, nEvents, nReports, quiet, quietRuns, snap,
          poison>>

\* ----------------------------------------------------------------- helpers
\* An empty HashMap / BTreeMap: the function with empty domain.
EmptyMap == [k \in {} |-> 0]

NoKey == <<>>

MapGet(m, k) == IF k \in DOMAIN m THEN m[k] ELSE 0

MapPut(m, k, v) == [x \in DOMAIN m \cup {k} |-> IF x = k THEN v ELSE m[x]]

RECURSIVE SetSum(_, _)
SetSum(f, S) ==
    IF S = {} THEN 0
    ELSE LET x == CHOOSE y \in S : TRUE
         IN f[x] + SetSum(f, S \ {x})

RECURSIVE SeqSum(_)
SeqSum(s) == IF s = <<>> THEN 0 ELSE Head(s) + SeqSum(Tail(s))

\* A thread is inside event! (between the call and its return).
Recording(t) == pc[t] \in {"create", "push", "lock", "entry", "inc"}

\* A thread is inside print_counts.
Reporting(t) == pc[t] \in {"p_maps", "p_loop", "p_merge", "p_print", "p_ret"}

\* What is known of a report that has not started its loop: no store it
\* merged has changed since (missed), no store still to be merged has changed
\* after such a change (late), and it has merged no such store (torn).
NoSnap == [missed |-> FALSE, late |-> {}, torn |-> FALSE]

\* No mutex is poisoned: neither that of MAPS nor that of a store.
NoPoison == [maps |-> FALSE, stores |-> {}]

Init ==
    /\ MAPS = <<>>
    /\ mapsLock = NoThread
    /\ stores = [s \in Threads |-> EmptyMap]
    /\ storeLock = [s \in Threads |-> NoThread]
    /\ tls = [t \in Threads |-> "uninit"]
    /\ pc = [t \in Threads |-> "idle"]
    /\ arg = [t \in Threads |-> NoKey]
    /\ cursor = [t \in Threads |-> 0]
    /\ events = [t \in Threads |-> EmptyMap]
    /\ out = [t \in Threads |-> <<>>]
    /\ prevOut = [t \in Threads |-> <<>>]
    /\ calls = [t \in Threads |-> [k \in Keys |-> 0]]
    /\ nEvents = 0
    /\ nReports = 0
    /\ quiet = [t \in Threads |-> FALSE]
    /\ quietRuns = [t \in Threads |-> 0]
    /\ snap = [t \in Threads |-> NoSnap]
    /\ poison = NoPoison

\* ------------------------------------------------------- event! (recording)
\* The index of the one-argument arm of event!.
DefaultIndex == 0

\* one process-wide store in place of the thread-local one
OwnStoreShared(t) == MainThread

\* THREAD_COUNTS.with: the store a thread's event! works on is its own.
OwnStore(t) == t

\* or_insert(1) in place of or_insert(0): a new entry ends at 2.
OrInsertOne(m, k) == IF k \in DOMAIN m THEN m ELSE MapPut(m, k, 1)

\* entry(key).or_insert(0): the entry is created with 0 when absent.
OrInsert(m, k) == IF k \in DOMAIN m THEN m ELSE MapPut(m, k, 0)

\* *entry += 1
Increment(m, k) == [m EXCEPT ![k] = m[k] + 1]

\* a store created and registered by every call, not once per thread
EnterEventAlwaysCreate(t, key) ==
    /\ pc[t] = "idle"
    /\ nEvents < MaxEvents
    /\ nEvents' = nEvents + 1
    /\ arg' = [arg EXCEPT ![t] = key]
    /\ pc' = [pc EXCEPT ![t] = "create"]
    /\ calls' = [calls EXCEPT ![t][key] = @ + 1]
    /\ quiet' = [u \in Threads |-> FALSE]
    /\ quietRuns' = [u \in Threads |-> 0]
    /\ UNCHANGED <<MAPS, mapsLock, stores, storeLock, tls, cursor, events,
                   out, prevOut, nReports,
                   snap, poison>>

\* What the call of event! does before the first lock: the arguments are
\* evaluated and THREAD_COUNTS.with runs the lazy initialiser when this is
\* the thread's first use of its store.
EnterEvent(t, key) ==
    /\ pc[t] = "idle"
    /\ nEvents < MaxEvents
    /\ nEvents' = nEvents + 1
    /\ arg' = [arg EXCEPT ![t] = key]
    /\ pc' = [pc EXCEPT ![t] = IF tls[t] = "uninit" THEN "create" ELSE "lock"]
    /\ calls' = [calls EXCEPT ![t][key] = @ + 1]
    /\ quiet' = [u \in Threads |-> FALSE]
    /\ quietRuns' = [u \in Threads |-> 0]
    /\ UNCHANGED <<MAPS, mapsLock, stores, storeLock, tls, cursor, events,
                   out, prevOut, nReports,
                   snap, poison>>

\* event!(name, index)
Event(t, name, index) == EnterEvent(t, <<name, index>>)

\* the one-argument arm passing 1 in place of 0
EventDefaultOne(t, name) == EnterEvent(t, <<name, 1>>)

\* event!(name)
EventDefault(t, name) == EnterEvent(t, <<name, DefaultIndex>>)

\* create_local_map: MAPS.lock() (blocks while the mutex is held)
CreateLock(t) ==
    /\ pc[t] = "create"
    /\ mapsLock = NoThread
    /\ ~poison.maps
    /\ mapsLock' = t
    /\ pc' = [pc EXCEPT ![t] = "push"]
    /\ UNCHANGED <<MAPS, stores, storeLock, tls, arg, cursor, events, out,
                   prevOut, calls, nEvents, nReports, quiet, quietRuns,
                   snap, poison>>

\* create_local_map: push(map.clone()), the guard is dropped, the new store
\* becomes the thread's THREAD_COUNTS
CreatePush(t) ==
    /\ pc[t] = "push"
    /\ MAPS' = Append(MAPS, OwnStore(t))
    /\ mapsLock' = NoThread
    /\ tls' = [tls EXCEPT ![t] = "init"]
    /\ pc' = [pc EXCEPT ![t] = "lock"]
    /\ UNCHANGED <<stores, storeLock, arg, cursor, events, out, prevOut,
                   calls, nEvents, nReports, quiet, quietRuns,
                   snap, poison>>

\* a lock that is taken whether the mutex is free or not
EventLockNoWait(t) ==
    /\ pc[t] = "lock"
    /\ storeLock' = [storeLock EXCEPT ![OwnStore(t)] = t]
    /\ pc' = [pc EXCEPT ![t] = "entry"]
    /\ UNCHANGED <<MAPS, mapsLock, stores, tls, arg, cursor, events, out,
                   prevOut, calls, nEvents, nReports, quiet, quietRuns,
                   snap, poison>>

\* counts.lock() (blocks while the mutex is held)
EventLock(t) ==
    /\ pc[t] = "lock"
    /\ storeLock[OwnStore(t)] = NoThread
    /\ OwnStore(t) \notin poison.stores
    /\ storeLock' = [storeLock EXCEPT ![OwnStore(t)] = t]
    /\ pc' = [pc EXCEPT ![t] = "entry"]
    /\ UNCHANGED <<MAPS, mapsLock, stores, tls, arg, cursor, events, out,
                   prevOut, calls, nEvents, nReports, quiet, quietRuns,
                   snap, poison>>

\* the entry created under one guard and incremented under another: the
\* store is unlocked in between
EventEntryUnlock(t) ==
    /\ pc[t] = "entry"
    /\ stores' = [stores EXCEPT ![OwnStore(t)] = OrInsert(@, arg[t])]
    /\ storeLock' = [storeLock EXCEPT ![OwnStore(t)] = NoThread]
    /\ pc' = [pc EXCEPT ![t] = "inc"]
    /\ UNCHANGED <<MAPS, mapsLock, tls, arg, cursor, events, out,
                   prevOut, calls, nEvents, nReports, quiet, quietRuns,
                   snap, poison>>

\* .entry((name, index)).or_insert(0)
EventEntry(t) ==
    /\ pc[t] = "entry"
    /\ stores' = [stores EXCEPT ![OwnStore(t)] = OrInsert(@, arg[t])]
    /\ pc' = [pc EXCEPT ![t] = "inc"]
    /\ UNCHANGED <<MAPS, mapsLock, storeLock, tls, arg, cursor, events, out,
                   prevOut, calls, nEvents, nReports, quiet, quietRuns,
                   snap, poison>>

\* What the reports in progress have seen of the stores once store s has
\* been incremented: a report that has merged s already has missed the
\* increment; a report that has missed an increment and has yet to merge s
\* will read s as it is after that missed increment.
SnapAfterIncrement(s) ==
    [r \in Threads |->
        IF pc[r] \in {"p_loop", "p_merge"} /\ \E j \in 1..Len(MAPS) : MAPS[j] = s
        THEN LET j == CHOOSE i \in 1..Len(MAPS) : MAPS[i] = s
             IN IF j < cursor[r] THEN [snap[r] EXCEPT !.missed = TRUE]
                ELSE IF snap[r].missed
                     THEN [snap[r] EXCEPT !.late = @ \cup {s}]
                     ELSE snap[r]
        ELSE snap[r]]

\* += 1 with the guard leaked: the store stays locked by its owner
EventIncKeepLock(t) ==
    /\ pc[t] = "inc"
    /\ stores' = [stores EXCEPT ![OwnStore(t)] = Increment(@, arg[t])]
    /\ arg' = [arg EXCEPT ![t] = NoKey]
    /\ pc' = [pc EXCEPT ![t] = "idle"]
    /\ snap' = SnapAfterIncrement(OwnStore(t))
    /\ UNCHANGED <<MAPS, mapsLock, storeLock, tls, cursor, events, out,
                   prevOut, calls, nEvents, nReports, quiet, quietRuns,
                   poison>>

\* += 1, then the guard is dropped at the end of the statement
EventInc(t) ==
    /\ pc[t] = "inc"
    /\ stores' = [stores EXCEPT ![OwnStore(t)] = Increment(@, arg[t])]
    /\ storeLock' = [storeLock EXCEPT ![OwnStore(t)] = NoThread]
    /\ arg' = [arg EXCEPT ![t] = NoKey]
    /\ pc' = [pc EXCEPT ![t] = "idle"]
    /\ snap' = SnapAfterIncrement(OwnStore(t))
    /\ UNCHANGED <<MAPS, mapsLock, tls, cursor, events, out, prevOut, calls,
                   nEvents, nReports, quiet, quietRuns,
                   poison>>

\* A spawned thread ends: its THREAD_COUNTS handle is dropped.  The store
\* lives on through the clone that MAPS holds.
Terminate(t) ==
    /\ t # MainThread
    /\ pc[t] = "idle"
    /\ pc' = [pc EXCEPT ![t] = "dead"]
    /\ tls' = [tls EXCEPT ![t] = IF @ = "init" THEN "destroyed" ELSE @]
    /\ UNCHANGED <<MAPS, mapsLock, stores, storeLock, arg, cursor, events,
                   out, prevOut, calls, nEvents, nReports, quiet, quietRuns, snap,
          poison,
                   snap, poison>>

\* ------------------------------------------------- print_counts (reporting)
\* Ord of &str: lexicographic comparison of the bytes.
StrLess(a, b) ==
    \E k \in 1..(Len(a) + 1) :
        /\ \A j \in 1..(k - 1) : j <= Len(b) /\ a[j] = b[j]
        /\ \/ k = Len(a) + 1 /\ k <= Len(b)
           \/ k <= Len(a) /\ k <= Len(b) /\ a[k] < b[k]

\* Ord of i64
IndexLess(i, j) == i < j

\* names ordered by length first, as a map keyed by (len, bytes) would
RECURSIVE NamesShortFirst(_)
NamesShortFirst(S) ==
    IF S = {} THEN <<>>
    ELSE LET n == CHOOSE x \in S : \A y \in S \ {x} :
                      \/ Len(x) < Len(y)
                      \/ Len(x) = Len(y) /\ StrLess(x, y)
         IN <<n>> \o NamesShortFirst(S \ {n})

\* Iteration order of the outer BTreeMap: its keys in ascending order.
RECURSIVE NamesInOrder(_)
NamesInOrder(S) ==
    IF S = {} THEN <<>>
    ELSE LET n == CHOOSE x \in S : \A y \in S \ {x} : StrLess(x, y)
         IN <<n>> \o NamesInOrder(S \ {n})

\* Iteration order of an inner BTreeMap: its keys in ascending order.
RECURSIVE IndicesInOrder(_)
IndicesInOrder(S) ==
    IF S = {} THEN <<>>
    ELSE LET i == CHOOSE x \in S : \A y \in S \ {x} : IndexLess(x, y)
         IN <<i>> \o IndicesInOrder(S \ {i})

\* the count added to the count merged so far, not put in its place
InsertCountAdd(old, m, n, i) ==
    (IF <<n, i>> \in DOMAIN m THEN m[<<n, i>>] ELSE 0)
        + (IF i \in DOMAIN old THEN old[i] ELSE 0)

\* The count one store contributes for (n, i) in the loop over its entries:
\* events.entry(name).or_insert_with(BTreeMap::new).insert(index, count).
\* old is the inner map for n built so far.
InsertCount(old, m, n, i) ==
    IF <<n, i>> \in DOMAIN m THEN m[<<n, i>>] ELSE old[i]

\* The body of the loop over MAPS for one store m: every entry of m is
\* inserted into events.  The entries of one store have distinct keys, so the
\* hash map's iteration order does not show in the result.
MergeStore(ev, m) ==
    LET names == DOMAIN ev \cup {k[1] : k \in DOMAIN m}
    IN [n \in names |->
          LET old == IF n \in DOMAIN ev THEN ev[n] ELSE EmptyMap
              idx == DOMAIN old \cup {k[2] : k \in {x \in DOMAIN m : x[1] = n}}
          IN [i \in idx |-> InsertCount(old, m, n, i)]]

\* counts.values().copied().sum::<u64>()
SumOf(counts) == SetSum(counts, DOMAIN counts)

\* the condition without its second disjunct
ShowBreakdownLenOnly(counts) == Cardinality(DOMAIN counts) > 1

\* counts.len() > 1 || !counts.contains_key(&0)
ShowBreakdown(counts) == Cardinality(DOMAIN counts) > 1 \/ ~(0 \in DOMAIN counts)

\* the percentage truncated to one decimal instead of rounded
PercentTruncated(count, sum) == (1000 * count) \div sum

\* {:.1} of count as f64 / sum * 100.0, in tenths of a percent: the decimal
\* nearest to the quotient, a tie going to the even digit.  (For the counts
\* of this model the f64 quotient is far closer to the exact quotient than
\* the exact quotient is to a rounding boundary.)
PercentTenths(count, sum) ==
    LET q == (1000 * count) \div sum
        r == (1000 * count) % sum
    IN IF 2 * r > sum \/ (2 * r = sum /\ q % 2 = 1) THEN q + 1 ELSE q

\* println!("{name}: {sum}")
SumLine(n, sum) == [kind |-> "sum", name |-> n, index |-> 0, val |-> sum]

\* println!("{name}[{index}]: {:.1}%", ...)
PercentLine(n, i, tenths) ==
    [kind |-> "pct", name |-> n, index |-> i, val |-> tenths]

\* The lines the printing loop emits for one name.
NameLines(n, counts) ==
    LET sum == SumOf(counts)
        idx == IndicesInOrder(DOMAIN counts)
    IN <<SumLine(n, sum)>> \o
       (IF ShowBreakdown(counts)
        THEN [j \in 1..Len(idx) |->
                PercentLine(n, idx[j], PercentTenths(counts[idx[j]], sum))]
        ELSE <<>>)

RECURSIVE LinesOf(_, _)
LinesOf(ev, names) ==
    IF names = <<>> THEN <<>>
    ELSE NameLines(Head(names), ev[Head(names)]) \o LinesOf(ev, Tail(names))

\* a report that always starts with a line of totals
PrintLinesWithTotal(ev) ==
    <<SumLine(<<>>, 0)>> \o LinesOf(ev, NamesInOrder(DOMAIN ev))

\* for (name, counts) in events.iter() { ... }
PrintLines(ev) == LinesOf(ev, NamesInOrder(DOMAIN ev))

\* a print_counts that goes through THREAD_COUNTS and so creates and
\* registers the calling thread's store
PrintCountsRegisters(t) ==
    /\ pc[t] = "idle"
    /\ nReports < MaxReports
    /\ mapsLock = NoThread
    /\ nReports' = nReports + 1
    /\ pc' = [pc EXCEPT ![t] = "p_maps"]
    /\ MAPS' = IF tls[t] = "uninit" THEN Append(MAPS, OwnStore(t)) ELSE MAPS
    /\ tls' = [tls EXCEPT ![t] = "init"]
    /\ prevOut' = [prevOut EXCEPT ![t] = out[t]]
    /\ out' = [out EXCEPT ![t] = <<>>]
    /\ quiet' = [quiet EXCEPT ![t] = \A u \in Threads : ~Recording(u)]
    /\ UNCHANGED <<mapsLock, stores, storeLock, arg, cursor, events, calls,
                   nEvents, quietRuns,
                   snap, poison>>

\* The call of print_counts.
PrintCounts(t) ==
    /\ pc[t] = "idle"
    /\ nReports < MaxReports
    /\ nReports' = nReports + 1
    /\ pc' = [pc EXCEPT ![t] = "p_maps"]
    /\ prevOut' = [prevOut EXCEPT ![t] = out[t]]
    /\ out' = [out EXCEPT ![t] = <<>>]
    /\ quiet' = [quiet EXCEPT ![t] = \A u \in Threads : ~Recording(u)]
    /\ UNCHANGED <<MAPS, mapsLock, stores, storeLock, tls, arg, cursor,
                   events, calls, nEvents, quietRuns,
                   snap, poison>>

\* the registry lock released as soon as the stores are enumerated
ReportLockMapsSnapshot(t) ==
    /\ pc[t] = "p_maps"
    /\ mapsLock = NoThread
    /\ events' = [events EXCEPT ![t] = EmptyMap]
    /\ cursor' = [cursor EXCEPT ![t] = 1]
    /\ pc' = [pc EXCEPT ![t] = "p_loop"]
    /\ UNCHANGED <<MAPS, mapsLock, stores, storeLock, tls, arg, out, prevOut,
                   calls, nEvents, nReports, quiet, quietRuns,
                   snap, poison>>

\* let maps = MAPS.lock().unwrap(); let mut events = BTreeMap::new();
ReportLockMaps(t) ==
    /\ pc[t] = "p_maps"
    /\ mapsLock = NoThread
    /\ ~poison.maps
    /\ mapsLock' = t
    /\ events' = [events EXCEPT ![t] = EmptyMap]
    /\ cursor' = [cursor EXCEPT ![t] = 1]
    /\ pc' = [pc EXCEPT ![t] = "p_loop"]
    /\ UNCHANGED <<MAPS, stores, storeLock, tls, arg, out, prevOut, calls,
                   nEvents, nReports, quiet, quietRuns,
                   snap, poison>>

\* for map in &*maps { let map = map.lock().unwrap(); (blocks while held)
ReportLockStore(t) ==
    /\ pc[t] = "p_loop"
    /\ cursor[t] <= Len(MAPS)
    /\ storeLock[MAPS[cursor[t]]] = NoThread
    /\ MAPS[cursor[t]] \notin poison.stores
    /\ storeLock' = [storeLock EXCEPT ![MAPS[cursor[t]]] = t]
    /\ pc' = [pc EXCEPT ![t] = "p_merge"]
    /\ UNCHANGED <<MAPS, mapsLock, stores, tls, arg, cursor, events, out,
                   prevOut, calls, nEvents, nReports, quiet, quietRuns,
                   snap, poison>>

\* What report t has seen once it has merged the store under its cursor: a
\* store read late makes the merged stores a combination that the stores
\* never had at one instant.
SnapAfterMerge(t) ==
    [snap EXCEPT ![t].torn = @ \/ MAPS[cursor[t]] \in snap[t].late]

\* a merge that keeps the store's guard until print_counts returns
ReportMergeKeepLock(t) ==
    /\ pc[t] = "p_merge"
    /\ events' = [events EXCEPT ![t] = MergeStore(@, stores[MAPS[cursor[t]]])]
    /\ cursor' = [cursor EXCEPT ![t] = @ + 1]
    /\ pc' = [pc EXCEPT ![t] = "p_loop"]
    /\ snap' = SnapAfterMerge(t)
    /\ UNCHANGED <<MAPS, mapsLock, stores, storeLock, tls, arg, out, prevOut,
                   calls, nEvents, nReports, quiet, quietRuns,
                   poison>>

\* a merge that drains the store it reads
ReportMergeDrain(t) ==
    /\ pc[t] = "p_merge"
    /\ events' = [events EXCEPT ![t] = MergeStore(@, stores[MAPS[cursor[t]]])]
    /\ stores' = [stores EXCEPT ![MAPS[cursor[t]]] = EmptyMap]
    /\ storeLock' = [storeLock EXCEPT ![MAPS[cursor[t]]] = NoThread]
    /\ cursor' = [cursor EXCEPT ![t] = @ + 1]
    /\ pc' = [pc EXCEPT ![t] = "p_loop"]
    /\ snap' = SnapAfterMerge(t)
    /\ UNCHANGED <<MAPS, mapsLock, tls, arg, out, prevOut, calls, nEvents,
                   nReports, quiet, quietRuns,
                   poison>>

\* the inner loop over the store's entries; the store's guard is dropped at
\* the end of the iteration
ReportMerge(t) ==
    /\ pc[t] = "p_merge"
    /\ events' = [events EXCEPT ![t] = MergeStore(@, stores[MAPS[cursor[t]]])]
    /\ storeLock' = [storeLock EXCEPT ![MAPS[cursor[t]]] = NoThread]
    /\ cursor' = [cursor EXCEPT ![t] = @ + 1]
    /\ pc' = [pc EXCEPT ![t] = "p_loop"]
    /\ snap' = SnapAfterMerge(t)
    /\ UNCHANGED <<MAPS, mapsLock, stores, tls, arg, out, prevOut, calls,
                   nEvents, nReports, quiet, quietRuns,
                   poison>>

\* the loop over MAPS is exhausted
ReportLoopEnd(t) ==
    /\ pc[t] = "p_loop"
    /\ cursor[t] > Len(MAPS)
    /\ pc' = [pc EXCEPT ![t] = "p_print"]
    /\ UNCHANGED <<MAPS, mapsLock, stores, storeLock, tls, arg, cursor,
                   events, out, prevOut, calls, nEvents, nReports, quiet, quietRuns,
                   snap, poison>>

\* the printing loop
ReportPrint(t) ==
    /\ pc[t] = "p_print"
    /\ out' = [out EXCEPT ![t] = PrintLines(events[t])]
    /\ pc' = [pc EXCEPT ![t] = "p_ret"]
    /\ UNCHANGED <<MAPS, mapsLock, stores, storeLock, tls, arg, cursor,
                   events, prevOut, calls, nEvents, nReports, quiet, quietRuns,
                   snap, poison>>

\* the guard of MAPS leaked: the registry stays locked after the return
MapsLockKept(t) == t

\* The locks print_counts gives up when it returns: `maps`, the guard of
\* MAPS, is dropped at the end of the function.
MapsLockAfterReturn(t) == NoThread

\* print_counts returns: events and maps are dropped
ReportReturn(t) ==
    /\ pc[t] = "p_ret"
    /\ mapsLock' = MapsLockAfterReturn(t)
    /\ events' = [events EXCEPT ![t] = EmptyMap]
    /\ cursor' = [cursor EXCEPT ![t] = 0]
    /\ quietRuns' = [quietRuns EXCEPT ![t] =
                        IF quiet[t] THEN (IF @ < 2 THEN @ + 1 ELSE 2) ELSE 0]
    /\ quiet' = [quiet EXCEPT ![t] = FALSE]
    /\ pc' = [pc EXCEPT ![t] = "idle"]
    /\ snap' = [snap EXCEPT ![t] = NoSnap]
    /\ UNCHANGED <<MAPS, stores, storeLock, tls, arg, out, prevOut, calls,
                   nEvents, nReports,
                   poison>>

\* ------------------------------------------------------ panics and poison
\* A mutex whose holder panics is poisoned for good; lock() on a poisoned
\* mutex waits for it like any lock(), then returns an error, and unwrap()
\* panics on that error.  The panic in this crate that can happen under a
\* lock: the argument expressions of event! are evaluated after
\* counts.lock().unwrap(), with the store's guard alive, and they are the
\* caller's code.

\* event!: the evaluation of ($name, $index as i64) panics under the store's
\* guard; the guard is dropped by the unwinding and poisons the store's mutex
EventArgPanic(t) ==
    /\ pc[t] = "entry"
    /\ storeLock' = [storeLock EXCEPT ![OwnStore(t)] = NoThread]
    /\ poison' = [poison EXCEPT !.stores = @ \cup {OwnStore(t)}]
    /\ calls' = [calls EXCEPT ![t][arg[t]] = @ - 1]
    /\ arg' = [arg EXCEPT ![t] = NoKey]
    /\ pc' = [pc EXCEPT ![t] = "panic_e"]
    /\ UNCHANGED <<MAPS, mapsLock, stores, tls, cursor, events, out, prevOut,
                   nEvents, nReports, quiet, quietRuns, snap>>

\* event!: counts.lock().unwrap() on the poisoned mutex of the store
EventLockPoisoned(t) ==
    /\ pc[t] = "lock"
    /\ storeLock[OwnStore(t)] = NoThread
    /\ OwnStore(t) \in poison.stores
    /\ calls' = [calls EXCEPT ![t][arg[t]] = @ - 1]
    /\ arg' = [arg EXCEPT ![t] = NoKey]
    /\ pc' = [pc EXCEPT ![t] = "panic_e"]
    /\ UNCHANGED <<MAPS, mapsLock, stores, storeLock, tls, cursor, events,
                   out, prevOut, nEvents, nReports, quiet, quietRuns, snap,
                   poison>>

\* create_local_map: MAPS.lock().unwrap() on the poisoned mutex of MAPS; the
\* lazy initialiser has panicked and THREAD_COUNTS stays uninitialised
CreateLockPoisoned(t) ==
    /\ pc[t] = "create"
    /\ mapsLock = NoThread
    /\ poison.maps
    /\ calls' = [calls EXCEPT ![t][arg[t]] = @ - 1]
    /\ arg' = [arg EXCEPT ![t] = NoKey]
    /\ pc' = [pc EXCEPT ![t] = "panic_e"]
    /\ UNCHANGED <<MAPS, mapsLock, stores, storeLock, tls, cursor, events,
                   out, prevOut, nEvents, nReports, quiet, quietRuns, snap,
                   poison>>

\* print_counts: MAPS.lock().unwrap() on the poisoned mutex of MAPS
ReportLockMapsPoisoned(t) ==
    /\ pc[t] = "p_maps"
    /\ mapsLock = NoThread
    /\ poison.maps
    /\ pc' = [pc EXCEPT ![t] = "panic_r"]
    /\ UNCHANGED <<MAPS, mapsLock, stores, storeLock, tls, arg, cursor,
                   events, out, prevOut, calls, nEvents, nReports, quiet,
                   quietRuns, snap, poison>>

\* a poisoned store passed over: the loop goes on with the next store
ReportLockStoreSkip(t) ==
    /\ pc[t] = "p_loop"
    /\ cursor[t] <= Len(MAPS)
    /\ storeLock[MAPS[cursor[t]]] = NoThread
    /\ MAPS[cursor[t]] \in poison.stores
    /\ cursor' = [cursor EXCEPT ![t] = @ + 1]
    /\ UNCHANGED <<MAPS, mapsLock, stores, storeLock, tls, pc, arg, events,
                   out, prevOut, calls, nEvents, nReports, quiet, quietRuns,
                   snap, poison>>

\* print_counts: map.lock().unwrap() on the poisoned mutex of a store; the
\* unwinding drops events and the guard of MAPS, which poisons MAPS
ReportLockStorePoisoned(t) ==
    /\ pc[t] = "p_loop"
    /\ cursor[t] <= Len(MAPS)
    /\ storeLock[MAPS[cursor[t]]] = NoThread
    /\ MAPS[cursor[t]] \in poison.stores
    /\ mapsLock' = NoThread
    /\ poison' = [poison EXCEPT !.maps = TRUE]
    /\ events' = [events EXCEPT ![t] = EmptyMap]
    /\ cursor' = [cursor EXCEPT ![t] = 0]
    /\ snap' = [snap EXCEPT ![t] = NoSnap]
    /\ quiet' = [quiet EXCEPT ![t] = FALSE]
    /\ pc' = [pc EXCEPT ![t] = "panic_r"]
    /\ UNCHANGED <<MAPS, stores, storeLock, tls, arg, out, prevOut, calls,
                   nEvents, nReports, quietRuns>>

\* The host catches the panic (catch_unwind, or a thread that is joined and
\* replaced by one that goes on under its name) and carries on.
Recover(t) ==
    /\ pc[t] \in {"panic_e", "panic_r"}
    /\ pc' = [pc EXCEPT ![t] = "idle"]
    /\ UNCHANGED <<MAPS, mapsLock, stores, storeLock, tls, arg, cursor,
                   events, out, prevOut, calls, nEvents, nReports, quiet,
                   quietRuns, snap, poison>>

PanicStep(t) ==
    \/ EventArgPanic(t)
    \/ EventLockPoisoned(t)
    \/ CreateLockPoisoned(t)
    \/ ReportLockMapsPoisoned(t)
    \/ ReportLockStorePoisoned(t)
    \/ Recover(t)

\* ------------------------------------------------------------ specification
\* The steps inside a call of event!, and the end of a thread.
EventStep(t) ==
    \/ CreateLock(t)
    \/ CreatePush(t)
    \/ EventLock(t)
    \/ EventEntry(t)
    \/ EventInc(t)
    \/ Terminate(t)

\* The call of print_counts and the steps inside it.
ReportStep(t) ==
    \/ PrintCounts(t)
    \/ ReportLockMaps(t)
    \/ ReportLockStore(t)
    \/ ReportMerge(t)
    \/ ReportLoopEnd(t)
    \/ ReportPrint(t)
    \/ ReportReturn(t)

\* Spec: the threads of Workers record and report concurrently; the
\* arguments of event! are drawn from EventArgs, those of its one-argument
\* form from DefaultArgs.
Workers == {1, 2}
EventArgs == {<<2>>} \X {0, 1}
DefaultArgs == {<<2>>}

Next ==
    \E t \in Workers :
        \/ \E k \in EventArgs : Event(t, k[1], k[2])
        \/ \E n \in DefaultArgs : EventDefault(t, n)
        \/ EventStep(t)
        \/ ReportStep(t)

Spec == Init /\ [][Next]_vars

\* FairSpec: Spec with every thread scheduled fairly: a thread that is inside
\* a call and can take its next step (a blocked lock() is no step) takes it
\* eventually.  Calls are made or not as the host program likes.
Progress(t) ==
    \/ CreateLock(t)
    \/ CreatePush(t)
    \/ EventLock(t)
    \/ EventEntry(t)
    \/ EventInc(t)
    \/ ReportLockMaps(t)
    \/ ReportLockStore(t)
    \/ ReportMerge(t)
    \/ ReportLoopEnd(t)
    \/ ReportPrint(t)
    \/ ReportReturn(t)

FairSpec == Spec /\ \A t \in Workers : WF_vars(Progress(t))

\* SpecThree: the main thread reports while two spawned threads record.
Recorders == {2, 3}

NextThree ==
    \/ \E t \in Recorders :
          \/ \E k \in EventArgs : Event(t, k[1], k[2])
          \/ EventStep(t)
    \/ ReportStep(MainThread)

SpecThree == Init /\ [][NextThree]_vars

\* SpecPoison: Spec with the panics above; the events are of one key.
PoisonArgs == {<<<<2>>, 1>>}

NextPoison ==
    \E t \in Workers :
        \/ \E k \in PoisonArgs : Event(t, k[1], k[2])
        \/ EventStep(t)
        \/ ReportStep(t)
        \/ PanicStep(t)

SpecPoison == Init /\ [][NextPoison]_vars

\* SpecReport: events have been recorded before and the main thread now
\* reports, MaxReports times.  The states it starts from are states that
\* completed calls of event! produce: either the main thread alone has
\* recorded (any counts up to MaxCount), or two threads have recorded each
\* key at most once and registered in either order.
MaxCount == 3

StoreOf(f) == [k \in {x \in Keys : f[x] > 0} |-> f[k]]

NoCalls == [k \in Keys |-> 0]

\* The state in which the stores of maps are registered in this order, the
\* thread of store s has made the calls f[s], and no call is in progress.
Recorded(maps, f) ==
    LET owners == {maps[j] : j \in 1..Len(maps)}
    IN /\ MAPS = maps
       /\ mapsLock = NoThread
       /\ stores = [s \in Threads |-> StoreOf(f[s])]
       /\ storeLock = [s \in Threads |-> NoThread]
       /\ tls = [t \in Threads |-> IF t \in owners THEN "init" ELSE "uninit"]
       /\ pc = [t \in Threads |-> "idle"]
       /\ arg = [t \in Threads |-> NoKey]
       /\ cursor = [t \in Threads |-> 0]
       /\ events = [t \in Threads |-> EmptyMap]
       /\ out = [t \in Threads |-> <<>>]
       /\ prevOut = [t \in Threads |-> <<>>]
       /\ calls = f
       /\ nEvents = 0
       /\ nReports = 0
       /\ quiet = [t \in Threads |-> FALSE]
       /\ quietRuns = [t \in Threads |-> 0]
       /\ snap = [t \in Threads |-> NoSnap]
       /\ poison = NoPoison

InitReport ==
    \/ \E f1 \in [Keys -> 0..MaxCount] :
          /\ f1 # NoCalls
          /\ Recorded(<<1>>, [t \in Threads |-> IF t = 1 THEN f1 ELSE NoCalls])
    \/ \E f1, f2 \in [Keys -> 0..1], maps \in {<<1, 2>>, <<2, 1>>} :
          /\ f1 # NoCalls /\ f2 # NoCalls
          /\ Recorded(maps, [t \in Threads |->
                                IF t = 1 THEN f1 ELSE IF t = 2 THEN f2 ELSE NoCalls])

NextReport == ReportStep(MainThread)

SpecReport == InitReport /\ [][NextReport]_vars

\* ------------------------------------------------------------------ claims
\* The count the merged view of a report holds for a key, 0 when absent.
ViewCount(ev, k) ==
    IF k[1] \in DOMAIN ev /\ k[2] \in DOMAIN ev[k[1]] THEN ev[k[1]][k[2]] ELSE 0

\* The number of event! calls made with key k, over all threads.
TotalCalls(k) == SetSum([t \in Threads |-> calls[t][k]], Threads)

\* The sum, over the registered stores, of the store's count for key k.
RegisteredSum(k) ==
    SeqSum([j \in 1..Len(MAPS) |-> MapGet(stores[MAPS[j]], k)])

\* Thread t has finished merging and printing a report during which no
\* event! call was running.
QuietReportDone(t) == pc[t] = "p_ret" /\ quiet[t]

\* C1: once all event! calls have completed, the count a report holds for a
\* key equals the number of event! calls made with that key, which is the sum
\* of the registered stores' counts for it.
C1_ReportEqualsTotalCalls ==
    \A t \in Threads :
        QuietReportDone(t) =>
            \A k \in Keys :
                /\ ViewCount(events[t], k) = TotalCalls(k)
                /\ ViewCount(events[t], k) = RegisteredSum(k)

\* C2: a thread's store holds, for every key, the number of event! calls the
\* thread has completed with that key: a call in progress is the only
\* difference between the calls made and the count, an entry exists exactly
\* for the keys recorded, and a first call leaves the entry at 1.
C2_StoreCountsCalls ==
    \A t \in Threads :
        /\ \A k \in Keys :
              MapGet(stores[t], k) =
                  calls[t][k] - (IF Recording(t) /\ arg[t] = k THEN 1 ELSE 0)
        /\ ~Recording(t) => DOMAIN stores[t] = {k \in Keys : calls[t][k] > 0}

\* A thread has recorded one key twice and another once, and a report that
\* ran concurrently with recording has finished.
C2_Witness ==
    \E t \in Threads, k1, k2 \in Keys :
        /\ pc[t] = "idle"
        /\ k1 # k2
        /\ calls[t][k1] = 2 /\ stores[t][k1] = 2
        /\ calls[t][k2] = 1 /\ stores[t][k2] = 1
        /\ \E u \in Threads : pc[u] = "p_ret" /\ ~quiet[u]

\* C3: a step is a call event!(name) exactly when it is a call
\* event!(name, 0): the two calls lead from any state to the same state.
C3_DefaultIsIndexZero ==
    [][\A t \in Threads, n \in Names : EventDefault(t, n) <=> Event(t, n, 0)]_vars

\* A call with sub-index 0 has completed next to one with another sub-index.
C3_Witness ==
    \E t \in Threads, n \in Names :
        /\ pc[t] = "idle"
        /\ <<n, 0>> \in DOMAIN stores[t]
        /\ <<n, 1>> \in DOMAIN stores[t]

\* The positions of the output lines of thread t's report about name n.
SumLinesOf(t, n) ==
    {p \in 1..Len(out[t]) : out[t][p].kind = "sum" /\ out[t][p].name = n}

PercentLinesOf(t, n) ==
    {p \in 1..Len(out[t]) : out[t][p].kind = "pct" /\ out[t][p].name = n}

\* C4: a name's breakdown lines are printed if and only if the name has more
\* than one sub-index or its only sub-index is not 0, and then there is one
\* line per sub-index; a name whose only sub-index is 0 gets its sum line
\* alone.
C4_BreakdownRule ==
    \A t \in Threads :
        pc[t] = "p_ret" =>
            \A n \in DOMAIN events[t] :
                LET idx == DOMAIN events[t][n]
                    shown == Cardinality(idx) > 1
                             \/ (Cardinality(idx) = 1 /\ 0 \notin idx)
                IN /\ Cardinality(SumLinesOf(t, n)) = 1
                   /\ shown =>
                        {out[t][p].index : p \in PercentLinesOf(t, n)} = idx
                   /\ ~shown => PercentLinesOf(t, n) = {}

\* One report holds a name with the single sub-index 0 (sum line alone) and a
\* name with a single sub-index other than 0 (sum line and one breakdown
\* line).
C4_Witness ==
    \E t \in Threads, n1, n2 \in Names :
        /\ pc[t] = "p_ret"
        /\ n1 \in DOMAIN events[t] /\ DOMAIN events[t][n1] = {0}
        /\ n2 \in DOMAIN events[t] /\ DOMAIN events[t][n2] = {1}
        /\ PercentLinesOf(t, n1) = {}
        /\ Cardinality(PercentLinesOf(t, n2)) = 1
        /\ Len(out[t]) = 3

\* C5: in a report the sum lines are in strictly ascending lexicographic
\* order of the names (so each name has one sum line), every name of the
\* merged view has its sum line, every breakdown line follows the sum line of
\* its name with no other name's line in between, and the breakdown lines of
\* a name are in strictly ascending sub-index order.
C5_ReportOrder ==
    \A t \in Threads :
        pc[t] = "p_ret" =>
            LET L == out[t]
            IN /\ \A n \in DOMAIN events[t] : SumLinesOf(t, n) # {}
               /\ \A p, q \in 1..Len(L) :
                     p < q =>
                        /\ (L[p].kind = "sum" /\ L[q].kind = "sum")
                              => StrLess(L[p].name, L[q].name)
                        /\ (L[p].kind = "pct" /\ L[q].kind = "pct"
                            /\ L[p].name = L[q].name)
                              => L[p].index < L[q].index
                        /\ L[p].name # L[q].name
                              => \E r \in (p + 1)..q :
                                    L[r].kind = "sum" /\ L[r].name = L[q].name
               /\ Len(L) > 0 => L[1].kind = "sum"

\* A report over two stores, registered in the order opposite to the thread
\* numbers, holds both names, the longer name "ab" before the shorter "b",
\* and a breakdown that starts with the negative sub-index -1.
C5_Witness ==
    \E t \in Threads :
        /\ pc[t] = "p_ret"
        /\ MAPS = <<2, 1>>
        /\ DOMAIN events[t] = Names
        /\ out[t][1].name = <<1, 2>>
        /\ \E p \in 1..(Len(out[t]) - 1) :
              /\ out[t][p].kind = "pct" /\ out[t][p].index = -1
              /\ out[t][p + 1].kind = "pct" /\ out[t][p + 1].index = 0

\* C6: a name's sum line shows the total of the merged counts of the name
\* over all sub-indices, and a breakdown line shows the decimal with one
\* fractional digit nearest to count / total * 100 (val is in tenths of a
\* percent), total being the value of the name's sum line.
C6_SumAndPercent ==
    \A t \in Threads :
        pc[t] = "p_ret" =>
            \A p \in 1..Len(out[t]) :
                LET l == out[t][p]
                    total == SetSum([i \in Indices |->
                                       ViewCount(events[t], <<l.name, i>>)],
                                    Indices)
                    count == ViewCount(events[t], <<l.name, l.index>>)
                    diff == l.val * total - 1000 * count
                IN /\ total > 0
                   /\ l.kind = "sum" => l.val = total
                   /\ l.kind = "pct" =>
                        /\ count > 0
                        /\ 2 * diff <= total /\ 2 * diff >= 0 - total
                        /\ \E q \in SumLinesOf(t, l.name) :
                              out[t][q].val = total

\* Counts 1 and 3 print 25.0% and 75.0%, and in the same report counts 1 and
\* 2 print 33.3% and 66.7%.
C6_Witness ==
    \E t \in Threads :
        /\ pc[t] = "p_ret"
        /\ \E p, q \in 1..Len(out[t]) :
              /\ out[t][p].name = out[t][q].name
              /\ out[t][p].kind = "pct" /\ out[t][p].val = 250
              /\ out[t][q].kind = "pct" /\ out[t][q].val = 750
        /\ \E p, q \in 1..Len(out[t]) :
              /\ out[t][p].name = out[t][q].name
              /\ out[t][p].kind = "pct" /\ out[t][p].val = 333
              /\ out[t][q].kind = "pct" /\ out[t][q].val = 667

\* C7: the store of a thread that has terminated is still registered with
\* its counts, and a report made afterwards, with no recording going on,
\* holds for each of its keys the sum of the registered stores' counts.
C7_TerminatedThreadCounted ==
    \A t, u \in Threads :
        (QuietReportDone(t) /\ pc[u] = "dead" /\ calls[u] # NoCalls) =>
            /\ \E j \in 1..Len(MAPS) : MAPS[j] = OwnStore(u)
            /\ \A k \in DOMAIN stores[u] :
                  /\ stores[u][k] = calls[u][k]
                  /\ ViewCount(events[t], k) = RegisteredSum(k)

\* C8: a report that directly follows another report of the same thread,
\* with no event! call running from the start of the first to the end of the
\* second, prints the same lines.
C8_RepeatedReportSame ==
    \A t \in Threads :
        (QuietReportDone(t) /\ quietRuns[t] >= 1) => out[t] = prevOut[t]

\* The second of two such reports has printed a breakdown, two stores are
\* registered, one of them of a thread that has terminated.
C8_Witness ==
    \E t \in Threads :
        /\ QuietReportDone(t) /\ quietRuns[t] >= 1
        /\ Len(out[t]) >= 3
        /\ Len(MAPS) = 2
        /\ \E u \in Threads : pc[u] = "dead"

\* C9: a report made while the registry is empty prints no line.
C9_EmptyRegistryEmptyReport ==
    \A t \in Threads :
        (pc[t] = "p_ret" /\ Len(MAPS) = 0) => out[t] = <<>>

\* A report has run to its end with the registry empty.
C9_Witness ==
    \E t \in Threads :
        pc[t] = "p_ret" /\ Len(MAPS) = 0 /\ cursor[t] = 1

\* Thread t, in print_counts, holds a store lock or waits for one.
AtStoreLock(t) ==
    \/ pc[t] = "p_merge"
    \/ pc[t] = "p_loop" /\ cursor[t] <= Len(MAPS)

\* C10 as stated: the aggregator never holds the registry lock while it holds
\* or waits for a store lock.
C10_RegistryLockReleasedBeforeStores ==
    \A t \in Threads : ~(mapsLock = t /\ AtStoreLock(t))

\* C10 as amended: print_counts takes the registry lock first and keeps it
\* until it returns; it holds the registry lock whenever it holds or waits
\* for a store lock and while it prints, and no thread registers a store in
\* the meantime.
C10_RegistryLockHeldThroughout ==
    \A t \in Threads :
        pc[t] \in {"p_loop", "p_merge", "p_print", "p_ret"} =>
            /\ mapsLock = t
            /\ \A u \in Threads : pc[u] # "push"

\* The aggregator holds a store lock and the registry lock while another
\* thread waits for the registry lock to register its store.
C10_Witness ==
    \E t, u \in Threads :
        /\ pc[t] = "p_merge" /\ mapsLock = t
        /\ pc[u] = "create"

\* C11: under fair scheduling every call of event! and of print_counts
\* returns, whatever the other threads do (first calls that register
\* included), and the loop of print_counts moves past a store only by merging
\* it under its lock, never by skipping it.
C11_CallsComplete ==
    /\ \A t \in Workers : (Recording(t) \/ Reporting(t)) ~> (pc[t] = "idle")
    /\ [][\A t \in Threads :
            (cursor[t] >= 1 /\ cursor'[t] = cursor[t] + 1) =>
                (pc[t] = "p_merge" /\ storeLock[MAPS[cursor[t]]] = t)]_vars

\* The aggregator waits for a store lock held by the store's owner while a
\* third party is absent: the owner is inside its increment.
C11_Witness ==
    \E t, u \in Threads :
        /\ pc[t] = "p_loop" /\ cursor[t] <= Len(MAPS)
        /\ MAPS[cursor[t]] = OwnStore(u)
        /\ storeLock[OwnStore(u)] = u
        /\ pc[u] \in {"entry", "inc"}

\* The stores in the registry.
Registered == {MAPS[j] : j \in 1..Len(MAPS)}

\* C12: the registry holds each store once and only grows by appending the
\* store of a thread in its first event! call; a thread is registered before
\* it locks or changes its store; the registered threads are the threads
\* that have called event!, but for those still registering in their first
\* call, so the registry is as long as the number of threads that own a
\* store.
C12_RegistryAppendOnly ==
    /\ [](/\ \A i, j \in 1..Len(MAPS) : i # j => MAPS[i] # MAPS[j]
          /\ Len(MAPS) = Cardinality({t \in Threads : tls[t] # "uninit"})
          /\ \A t \in Threads :
                /\ (stores[t] # EmptyMap \/ pc[t] \in {"lock", "entry", "inc"})
                      => OwnStore(t) \in Registered
                /\ calls[t] # NoCalls
                      => (OwnStore(t) \in Registered \/ pc[t] \in {"create", "push"})
                /\ OwnStore(t) \in Registered => calls[t] # NoCalls)
    /\ [][\/ MAPS' = MAPS
          \/ \E t \in Threads :
                /\ pc[t] = "push" /\ tls[t] = "uninit"
                /\ MAPS' = Append(MAPS, OwnStore(t))]_vars

\* Two stores are registered, the owner of one has terminated and the owner
\* of the other has completed two calls.
C12_Witness ==
    \E t, u \in Threads :
        /\ Len(MAPS) = 2
        /\ pc[t] = "dead" /\ OwnStore(t) \in Registered
        /\ pc[u] = "idle" /\ SetSum(calls[u], Keys) = 2

\* C13: a thread inside event! holds no store lock but that of the store it
\* created (store t is the store thread t registered), and a store changes
\* only in a step that its own thread takes inside event! while holding the
\* store's lock.
C13_OnlyOwnStore ==
    /\ [](\A t, s \in Threads : (Recording(t) /\ storeLock[s] = t) => s = t)
    /\ [][\A s \in Threads :
            stores'[s] # stores[s] =>
                /\ pc[s] \in {"entry", "inc"}
                /\ pc'[s] # pc[s]
                /\ storeLock[s] = s
                /\ \A u \in Threads \ {s} : stores'[u] = stores[u]]_vars

\* Two threads are inside their increments of the same key at once, each
\* under its own lock.
C13_Witness ==
    \E t, u \in Threads :
        /\ t # u
        /\ pc[t] = "inc" /\ storeLock[t] = t
        /\ pc[u] = "inc" /\ storeLock[u] = u
        /\ arg[t] = arg[u]

\* The store locks thread t holds.
StoreLocksHeld(t) == {s \in Threads : storeLock[s] = t}

\* C14: the aggregator holds at most one store lock at a time: a store lock
\* it holds is the lock of the store it is merging, and it holds none when
\* it turns to the next store.
C14_OneStoreLockAtATime ==
    \A t \in Threads :
        /\ Cardinality(StoreLocksHeld(t)) <= 1
        /\ Reporting(t) =>
              StoreLocksHeld(t) =
                  IF pc[t] = "p_merge" THEN {MAPS[cursor[t]]} ELSE {}

\* The aggregator is merging the second store of the registry and the lock
\* of the first is free again.
C14_Witness ==
    \E t \in Threads :
        /\ pc[t] = "p_merge" /\ cursor[t] = 2
        /\ storeLock[MAPS[2]] = t
        /\ storeLock[MAPS[1]] = NoThread

\* C16: an entry of a store has count at least 1 unless its owner, holding
\* the store's lock, is between or_insert(0) and += 1 on it, so the
\* aggregator, which reads under the lock, never sees a 0; entries are never
\* removed and counts never decrease; every count and every name's total in
\* a merged view is at least 1.
C16_CountsPositive ==
    /\ [](/\ \A s \in Threads : \A k \in DOMAIN stores[s] :
                \/ stores[s][k] >= 1
                \/ /\ stores[s][k] = 0
                   /\ storeLock[s] = s /\ pc[s] = "inc" /\ arg[s] = k
          /\ \A t \in Threads : \A n \in DOMAIN events[t] :
                /\ DOMAIN events[t][n] # {}
                /\ \A i \in DOMAIN events[t][n] : events[t][n][i] >= 1
                /\ SetSum(events[t][n], DOMAIN events[t][n]) >= 1)
    /\ [][\A s \in Threads : \A k \in DOMAIN stores[s] :
            k \in DOMAIN stores'[s] /\ stores'[s][k] >= stores[s][k]]_vars

\* The aggregator waits for the lock of a store in which the owner has just
\* created an entry that still holds 0.
C16_Witness ==
    \E t, s \in Threads :
        /\ pc[t] = "p_loop" /\ cursor[t] <= Len(MAPS) /\ MAPS[cursor[t]] = s
        /\ pc[s] = "inc" /\ stores[s][arg[s]] = 0
        /\ storeLock[s] = s

\* The count of key k in the last store, in registration order, that holds k;
\* 0 when no registered store holds it.
LastStoreCount(k) ==
    LET js == {j \in 1..Len(MAPS) : k \in DOMAIN stores[MAPS[j]]}
    IN IF js = {} THEN 0
       ELSE stores[MAPS[CHOOSE j \in js : \A i \in js : i <= j]][k]

WaitsFor(t, u) ==
    /\ u # NoThread
    /\ \/ pc[t] \in {"create", "p_maps"} /\ mapsLock = u
       \/ pc[t] = "lock" /\ storeLock[OwnStore(t)] = u
       \/ pc[t] = "p_loop" /\ cursor[t] <= Len(MAPS)
             /\ storeLock[MAPS[cursor[t]]] = u

\* C19: a thread that requests the registry lock holds no store lock; a
\* thread that requests or holds its store's lock has its store registered
\* and does not hold the registry lock; and no cycle of threads waiting for
\* each other's locks exists.
C19_LockHierarchy ==
    /\ \A t \in Threads :
          /\ pc[t] \in {"create", "p_maps"} => StoreLocksHeld(t) = {}
          /\ pc[t] \in {"lock", "entry", "inc"} =>
                /\ t \in Registered /\ tls[t] = "init"
                /\ mapsLock # t
    /\ \A t, u, v \in Threads :
          /\ ~WaitsFor(t, t)
          /\ ~(WaitsFor(t, u) /\ WaitsFor(u, t))
          /\ ~(WaitsFor(t, u) /\ WaitsFor(u, v) /\ WaitsFor(v, t))

\* The aggregator, holding the registry lock, waits for the lock of a store
\* whose owner is inside its second event! call and waits for nothing.
C19_Witness ==
    \E t, u \in Threads :
        /\ mapsLock = t /\ WaitsFor(t, u)
        /\ pc[u] = "entry" /\ stores[u] # EmptyMap
        /\ \A v \in Threads : ~WaitsFor(u, v)

\* C20: no step of print_counts, its call and its return included, changes a
\* store, the registry or a thread's THREAD_COUNTS, and the thread holds no
\* lock once print_counts has returned.
C20_ReportReadOnly ==
    [][\A t \in Threads :
          (pc'[t] # pc[t] /\ (Reporting(t) \/ pc'[t] = "p_maps")) =>
              /\ stores' = stores
              /\ MAPS' = MAPS
              /\ tls' = tls
              /\ pc'[t] = "idle" =>
                    (mapsLock' # t /\ \A s \in Threads : storeLock'[s] # t)]_vars

\* A thread that never recorded has reported a non-empty registry and
\* returned: it owns no store, is not registered, and the locks are free.
C20_Witness ==
    \E t \in Threads :
        /\ pc[t] = "idle" /\ out[t] # <<>>
        /\ tls[t] = "uninit" /\ t \notin Registered
        /\ mapsLock = NoThread /\ \A s \in Threads : storeLock[s] = NoThread

\* C15: what a report reads of one store is the store at one instant (the
\* owner is not inside its update while the store is merged), but the stores
\* are read at different instants: a report is torn, that is, has merged a
\* store as it was after an increment of another store that it had missed,
\* only when event! calls ran during it and two stores or more are
\* registered.  C15_Witness shows that such a report is reachable.
C15_TornOnlyAcrossStores ==
    \A t \in Threads :
        /\ pc[t] = "p_merge" =>
              \A u \in Threads :
                  OwnStore(u) = MAPS[cursor[t]] => pc[u] \notin {"entry", "inc"}
        /\ snap[t].torn => (~quiet[t] /\ Len(MAPS) >= 2)

\* A finished report holds the increment of the second store, made after the
\* increment of the first store, which it does not hold: its view (k2 counted,
\* k1 not) is the merge of no state the stores were in at one instant, since
\* k1 was counted before k2 was.
C15_Witness ==
    \E t \in Threads, k1, k2 \in Keys :
        /\ pc[t] = "p_ret" /\ snap[t].torn
        /\ Len(MAPS) = 2 /\ k1 # k2
        /\ stores[MAPS[1]] = (k1 :> 1) /\ stores[MAPS[2]] = (k2 :> 1)
        /\ ViewCount(events[t], k1) = 0
        /\ ViewCount(events[t], k2) = 1

\* Thread t has waited for a mutex that is poisoned and now gets it.
LockFails(t) ==
    \/ pc[t] \in {"create", "p_maps"} /\ poison.maps
    \/ pc[t] = "lock" /\ OwnStore(t) \in poison.stores
    \/ pc[t] = "p_loop" /\ cursor[t] <= Len(MAPS)
          /\ MAPS[cursor[t]] \in poison.stores

\* C17: a thread whose lock() meets a poisoned mutex can only panic: its
\* next step ends the call in the panic outcome, without another attempt and
\* without moving on to the next store; a call of event! that panics leaves
\* all stores as they were; a print_counts that panics has printed no line;
\* and a print_counts that prints has merged every store of the registry.
C17_PoisonIsFatal ==
    /\ [][\A t \in Threads :
            /\ (LockFails(t) /\ (pc'[t] # pc[t] \/ cursor'[t] # cursor[t]))
                  => /\ pc'[t] = (IF Recording(t) THEN "panic_e" ELSE "panic_r")
                     /\ stores' = stores /\ MAPS' = MAPS
                     /\ out'[t] = out[t]
            /\ (pc[t] # "panic_e" /\ pc'[t] = "panic_e")
                  => stores' = stores]_vars
    /\ [](\A t \in Threads :
            /\ pc[t] = "panic_r" => out[t] = <<>>
            /\ pc[t] \in {"p_print", "p_ret"} => cursor[t] = Len(MAPS) + 1)

\* A report has panicked on the poisoned second store of the registry after
\* it had merged the first, which holds counts; MAPS is poisoned by it.
C17_Witness ==
    \E t \in Threads :
        /\ pc[t] = "panic_r" /\ poison.maps
        /\ Len(MAPS) = 2
        /\ stores[MAPS[1]] # EmptyMap /\ MAPS[1] \notin poison.stores
        /\ MAPS[2] \in poison.stores

====
